---------------------------- MODULE Spec2Model ----------------------------
(* A model of src/app.py: the threshold classifier categorize_risk, the     *)
(* scorer calculate_risk_parameters and the part of the Streamlit script    *)
(* that calls the scorer and shows a level per selected stock.              *)
(*                                                                          *)
(* Numbers.  A cell of the spreadsheet, a fetched quote and a threshold are *)
(* Python objects; the model keeps their kind:                              *)
(*   "num"    a finite float or int, n its value                            *)
(*   "inf"    float('inf'),  "-inf"  float('-inf')                          *)
(*   "nan"    float('nan'), which is what pandas stores for an empty cell   *)
(*   "numstr" a str that float() parses, n the value it parses to           *)
(*   "text"   a str that float() rejects, s its text                        *)
(*   "none"   None                                                          *)
(* Finite values are integers in a fixed unit per category, so that every   *)
(* threshold of risk_categories is an integer: tenths for Market Risk and   *)
(* Financial Risk (0.1 is 1, 1.5 is 15, 20 is 200), and 100000 for          *)
(* Liquidity Risk (1_000_000 is 10, 10_000_000_000 is 100000).  Only        *)
(* comparisons within one parameter are ever made.                          *)
EXTENDS Integers, Sequences, FiniteSets, TLC

VARIABLES
    df,                     \* the reference table (line 9): symbol -> row
    yf_data,                \* what yf.download answers for the batch (line 63)
    selected_stocks,        \* the multiselect's value (line 156)
    pc,                     \* position in the script
    run,                    \* "first" or "second" run of the script
    stock_data,             \* line 73
    results,                \* line 68
    stock_scores,           \* line 69
    category_scores,        \* line 70
    total_portfolio_score,  \* line 71
    i,                      \* index of the for loop of line 76
    stock_info,             \* lines 78-93
    total_stock_score,      \* line 96
    summary,                \* line 97
    k,                      \* index of the loops of lines 100-101, flattened
    j,                      \* index of the for loop of line 165
    shown,                  \* what lines 165-171 have written so far
    portfolio_shown,        \* what lines 174-177 have written
    prev,                   \* the values the previous run's call returned
    cl_value, cl_thresholds, cl_level   \* one call of categorize_risk

vars == <<df, yf_data, selected_stocks, pc, run, stock_data, results,
          stock_scores, category_scores, total_portfolio_score, i, stock_info,
          total_stock_score, summary, k, j, shown, portfolio_shown, prev,
          cl_value, cl_thresholds, cl_level>>

scorerVars == <<df, yf_data, selected_stocks, run, stock_data, results,
                stock_scores, category_scores, total_portfolio_score, i,
                stock_info, total_stock_score, summary, k, j, shown,
                portfolio_shown, prev>>

-----------------------------------------------------------------------------
(* Values *)

Num(n)    == [kind |-> "num",    n |-> n, s |-> ""]
NumStr(n) == [kind |-> "numstr", n |-> n, s |-> ""]
Text(s)   == [kind |-> "text",   n |-> 0, s |-> s]
NaN       == [kind |-> "nan",    n |-> 0, s |-> ""]
PosInf    == [kind |-> "inf",    n |-> 0, s |-> ""]
NegInf    == [kind |-> "-inf",   n |-> 0, s |-> ""]
None      == [kind |-> "none",   n |-> 0, s |-> ""]

DataNotAvailable == "Data not available"

\* float(value) raises ValueError on text it cannot parse, TypeError on None.
FloatRaises(value) == value.kind \in {"text", "none"}

\* float(value) where it does not raise.
Float(value) == IF value.kind = "numstr" THEN Num(value.n) ELSE value

\* a < b on floats; every comparison with nan is False.
Lt(a, b) ==
    IF a.kind = "nan" \/ b.kind = "nan" THEN FALSE
    ELSE IF a.kind = "inf" \/ b.kind = "-inf" THEN FALSE
    ELSE IF a.kind = "-inf" \/ b.kind = "inf" THEN TRUE
    ELSE a.n < b.n

\* a <= b on floats.
Le(a, b) ==
    IF a.kind = "nan" \/ b.kind = "nan" THEN FALSE
    ELSE Lt(a, b) \/ (a.kind = b.kind /\ a.n = b.n)

-----------------------------------------------------------------------------
(* categorize_risk and get_risk_color *)

\* categorize_risk with the first comparison written <= instead of <.
categorize_risk_strict_low(value, thresholds) ==
    IF FloatRaises(value) THEN DataNotAvailable
    ELSE LET v == Float(value) IN
         IF Le(v, thresholds[1]) THEN "Good"
         ELSE IF Le(thresholds[1], v) /\ Le(v, thresholds[2]) THEN "Neutral"
         ELSE "Bad"

categorize_risk(value, thresholds) ==
    IF FloatRaises(value) THEN DataNotAvailable
    ELSE LET v == Float(value) IN
         IF Lt(v, thresholds[1]) THEN "Good"
         ELSE IF Le(thresholds[1], v) /\ Le(v, thresholds[2]) THEN "Neutral"
         ELSE "Bad"

get_risk_color(risk_level) ==
    IF risk_level = "Good" THEN "green"
    ELSE IF risk_level = "Neutral" THEN "yellow"
    ELSE IF risk_level = "Bad" THEN "red"
    ELSE "black"

\* risk_categories, in declaration order (a dict keeps insertion order).
risk_categories == <<
    [name |-> "Market Risk", parameters |-> <<
        [name |-> "Volatility",             thresholds |-> <<Num(1), Num(2)>>],
        [name |-> "Beta",                   thresholds |-> <<Num(5), Num(15)>>],
        [name |-> "Correlation with ^NSEI", thresholds |-> <<Num(7), Num(10)>>] >>],
    [name |-> "Financial Risk", parameters |-> <<
        [name |-> "debtToEquity",   thresholds |-> <<Num(5), Num(15)>>],
        [name |-> "currentRatio",   thresholds |-> <<Num(15), Num(20)>>],
        [name |-> "quickRatio",     thresholds |-> <<Num(10), Num(15)>>],
        [name |-> "Profit Margins", thresholds |-> <<Num(200), Num(300)>>],
        [name |-> "returnOnAssets", thresholds |-> <<Num(100), Num(200)>>],
        [name |-> "returnOnEquity", thresholds |-> <<Num(150), Num(250)>>] >>],
    [name |-> "Liquidity Risk", parameters |-> <<
        [name |-> "Volume",         thresholds |-> <<Num(10), PosInf>>],
        [name |-> "Average Volume", thresholds |-> <<Num(5), Num(10)>>],
        [name |-> "marketCap",      thresholds |-> <<Num(100000), PosInf>>] >>] >>

Categories == {risk_categories[c].name : c \in DOMAIN risk_categories}

\* The (category, parameter, thresholds) triples in the order the nested
\* loops of lines 100-101 visit them.
RECURSIVE RulesFrom(_)
RulesFrom(c) ==
    IF c > Len(risk_categories) THEN <<>>
    ELSE [p \in DOMAIN risk_categories[c].parameters |->
             [category   |-> risk_categories[c].name,
              param      |-> risk_categories[c].parameters[p].name,
              thresholds |-> risk_categories[c].parameters[p].thresholds]]
         \o RulesFrom(c + 1)

Rules == RulesFrom(1)

Params == {Rules[r].param : r \in DOMAIN Rules}


-----------------------------------------------------------------------------
(* Inputs: the reference table, the fetched quotes, the selection *)

MaxStocks == 2      \* longest list of stock symbols passed to the scorer

\* Symbols with a row in the reference table, and one without.
Listed   == {"A", "B"}
Universe == Listed \cup {"XYZ"}

\* series[key] = value on a pandas Series: replaces the entry or adds it.
SetItem(series, key, value) ==
    [c \in DOMAIN series \cup {key} |-> IF c = key THEN value ELSE series[c]]

\* series.get(key): None when the Series has no such label.
Get(series, key) == IF key \in DOMAIN series THEN series[key] ELSE None

BandOf(p) == Rules[CHOOSE r \in DOMAIN Rules : Rules[r].param = p].thresholds

\* A row whose every scored cell is just below the lower threshold.
RowGood(symbol) ==
    [c \in Params \cup {"Stock Symbol", "Price"} |->
        IF c = "Stock Symbol" THEN Text(symbol)
        ELSE IF c = "Price" THEN Num(500)
        ELSE Num(BandOf(c)[1].n - 1)]

\* A row with Good, Neutral and Bad cells in every category.
RowMixed(symbol) ==
    [c \in Params \cup {"Stock Symbol", "Price"} |->
        CASE c = "Stock Symbol"           -> Text(symbol)
          [] c = "Price"                  -> Num(1000)
          [] c = "Volatility"             -> Num(0)
          [] c = "Beta"                   -> Num(10)
          [] c = "Correlation with ^NSEI" -> Num(11)
          [] c = "debtToEquity"           -> Num(16)
          [] c = "currentRatio"           -> Num(15)
          [] c = "quickRatio"             -> Num(15)
          [] c = "Profit Margins"         -> Num(100)
          [] c = "returnOnAssets"         -> Num(150)
          [] c = "returnOnEquity"         -> Num(300)
          [] c = "Volume"                 -> Num(20)
          [] c = "Average Volume"         -> Num(11)
          [] c = "marketCap"              -> Num(100000)]

\* The cells tried for parameter p: around both thresholds, an empty cell
\* (nan), text that parses and text that does not.
CellsFor(p) ==
    LET low == BandOf(p)[1]  high == BandOf(p)[2] IN
    { Num(low.n - 1), Num(low.n), NaN, Text("N/A"), NumStr(low.n - 1) }
    \cup (IF high.kind = "inf" THEN { Num(low.n + 1), PosInf }
          ELSE { Num(high.n), Num(high.n + 1) })

\* The table with one cell of A's row replaced, and the table that lacks
\* one column altogether.
TableWith(p, cell) ==
    [s \in Listed |-> IF s = "A" THEN [RowMixed(s) EXCEPT ![p] = cell]
                                 ELSE RowGood(s)]
TableWithout(p) ==
    [s \in Listed |->
        LET row == IF s = "A" THEN RowMixed(s) ELSE RowGood(s) IN
        [c \in DOMAIN row \ {p} |-> row[c]]]

Tables == UNION { { TableWith(p, cell) : cell \in CellsFor(p) } : p \in Params }
          \cup { TableWithout(p) : p \in Params }

\* The last row yf.download gives for a symbol (Close, Volume).
Quote(s) == IF s = "A" THEN [Close |-> Num(1010), Volume |-> Num(9)]
                       ELSE [Close |-> Num(505),  Volume |-> Num(30)]
Fetches == { [s \in D |-> Quote(s)] : D \in SUBSET Listed }

Selections == UNION { [1..n -> Universe] : n \in 0..MaxStocks }

ZeroScores  == [c \in Categories |-> 0]
ZeroSummary == [c \in Categories |->
                  [l \in {"Good", "Neutral", "Bad", DataNotAvailable} |-> 0]]
NoReturn == [results |-> <<>>, category_scores |-> ZeroScores,
             stock_scores |-> <<>>, total_portfolio_score |-> 0]
Returned == [results |-> results, category_scores |-> category_scores,
             stock_scores |-> stock_scores,
             total_portfolio_score |-> total_portfolio_score]

Init ==
    /\ df \in Tables
    /\ yf_data \in Fetches
    /\ selected_stocks \in Selections
    /\ pc = "script"
    /\ run = "first"
    /\ stock_data = <<>>
    /\ results = <<>>
    /\ stock_scores = <<>>
    /\ category_scores = ZeroScores
    /\ total_portfolio_score = 0
    /\ i = 1
    /\ stock_info = <<>>
    /\ total_stock_score = 0
    /\ summary = ZeroSummary
    /\ k = 1
    /\ j = 1
    /\ shown = <<>>
    /\ portfolio_shown = ""
    /\ prev = NoReturn
    /\ cl_value = None
    /\ cl_thresholds = <<None, None>>
    /\ cl_level = ""

-----------------------------------------------------------------------------
(* calculate_risk_parameters *)

\* Lines 161 and 231-232: nothing is selected, the scorer is not called.
PleaseSelect ==
    /\ pc = "script"
    /\ selected_stocks = <<>>
    /\ pc' = "done"
    /\ UNCHANGED <<scorerVars, cl_value, cl_thresholds, cl_level>>

\* Enter with category_scores and total_portfolio_score kept from one call to
\* the next, as module-level accumulators would be.
EnterKeepingScores ==
    /\ pc = "script"
    /\ selected_stocks # <<>>
    /\ results' = <<>>
    /\ stock_scores' = <<>>
    /\ stock_data' = yf_data
    /\ i' = 1
    /\ pc' = "for_stock"
    /\ UNCHANGED <<df, yf_data, selected_stocks, run, stock_info, category_scores,
                   total_portfolio_score, total_stock_score, summary, k, j, shown,
                   portfolio_shown, prev, cl_value, cl_thresholds, cl_level>>

\* Lines 161-162 and 68-73: the call, the fresh accumulators, the fetch.
Enter ==
    /\ pc = "script"
    /\ selected_stocks # <<>>
    /\ results' = <<>>
    /\ stock_scores' = <<>>
    /\ category_scores' = ZeroScores
    /\ total_portfolio_score' = 0
    /\ stock_data' = yf_data
    /\ i' = 1
    /\ pc' = "for_stock"
    /\ UNCHANGED <<df, yf_data, selected_stocks, run, stock_info,
                   total_stock_score, summary, k, j, shown, portfolio_shown,
                   prev, cl_value, cl_thresholds, cl_level>>

\* NoDataFound with the loop left (break) instead of continued.
NoDataFoundFatal ==
    /\ pc = "for_stock"
    /\ i <= Len(selected_stocks)
    /\ selected_stocks[i] \notin DOMAIN df
    /\ i' = Len(selected_stocks) + 1
    /\ UNCHANGED <<df, yf_data, selected_stocks, pc, run, stock_data, results,
                   stock_scores, category_scores, total_portfolio_score,
                   stock_info, total_stock_score, summary, k, j, shown,
                   portfolio_shown, prev, cl_value, cl_thresholds, cl_level>>

\* Lines 76-82: the symbol has no row in df; report and continue.
NoDataFound ==
    /\ pc = "for_stock"
    /\ i <= Len(selected_stocks)
    /\ selected_stocks[i] \notin DOMAIN df
    /\ i' = i + 1
    /\ UNCHANGED <<df, yf_data, selected_stocks, pc, run, stock_data, results,
                   stock_scores, category_scores, total_portfolio_score,
                   stock_info, total_stock_score, summary, k, j, shown,
                   portfolio_shown, prev, cl_value, cl_thresholds, cl_level>>

\* RealTimeOverride without the else branch: an unfetched symbol keeps the
\* Price and Volume of the table.
RealTimeOverrideKeepingStatic(row, stock_symbol, fetched) ==
    IF stock_symbol \in DOMAIN fetched
    THEN SetItem(SetItem(row, "Price", fetched[stock_symbol].Close),
                 "Volume", fetched[stock_symbol].Volume)
    ELSE row

\* Lines 86-93: Price and Volume from the fetch, or the marker.
RealTimeOverride(row, stock_symbol, fetched) ==
    IF stock_symbol \in DOMAIN fetched
    THEN SetItem(SetItem(row, "Price", fetched[stock_symbol].Close),
                 "Volume", fetched[stock_symbol].Volume)
    ELSE SetItem(SetItem(row, "Price", Text(DataNotAvailable)),
                 "Volume", Text(DataNotAvailable))

\* Lines 76-97: the first row of the symbol (a copy: df is not written to),
\* the override, the stock's fresh total and summary.
LoadStock ==
    /\ pc = "for_stock"
    /\ i <= Len(selected_stocks)
    /\ selected_stocks[i] \in DOMAIN df
    /\ stock_info' = RealTimeOverride(df[selected_stocks[i]], selected_stocks[i],
                                      stock_data)
    /\ total_stock_score' = 0
    /\ summary' = ZeroSummary
    /\ k' = 1
    /\ pc' = "for_param"
    /\ UNCHANGED <<df, yf_data, selected_stocks, run, stock_data, results,
                   stock_scores, category_scores, total_portfolio_score, i, j,
                   shown, portfolio_shown, prev, cl_value, cl_thresholds,
                   cl_level>>

\* +1 for Good, -1 for Bad, 0 otherwise (lines 116-123).
ScoreDelta(risk_level) ==
    IF risk_level = "Good" THEN 1 ELSE IF risk_level = "Bad" THEN -1 ELSE 0

\* results.insert(0, record) instead of results.append(record).
EmitInFront(list, record) == <<record>> \o list

\* results.append(record), lines 107 and 125.
Emit(list, record) == Append(list, record)

ResultRecord(stock_symbol, rule, value, risk_level, color) ==
    [StockSymbol |-> stock_symbol, Category |-> rule.category,
     Parameter |-> rule.param, Value |-> value, RiskLevel |-> risk_level,
     Color |-> color]

\* Lines 100-123: one parameter whose value is not None.
ScoreParameter ==
    /\ pc = "for_param"
    /\ k <= Len(Rules)
    /\ LET rule  == Rules[k]
           value == Get(stock_info, rule.param)
           risk_level == categorize_risk(value, rule.thresholds)
       IN /\ value # None
          /\ summary' = [summary EXCEPT ![rule.category][risk_level] = @ + 1]
          /\ results' = Emit(results,
                 ResultRecord(selected_stocks[i], rule, value, risk_level,
                              get_risk_color(risk_level)))
          /\ category_scores' =
                 [category_scores EXCEPT ![rule.category] = @ + ScoreDelta(risk_level)]
          /\ total_portfolio_score' = total_portfolio_score + ScoreDelta(risk_level)
          /\ total_stock_score' = total_stock_score + ScoreDelta(risk_level)
    /\ k' = k + 1
    /\ UNCHANGED <<df, yf_data, selected_stocks, pc, run, stock_data,
                   stock_scores, i, stock_info, j, shown, portfolio_shown, prev,
                   cl_value, cl_thresholds, cl_level>>

\* ParameterAbsent without the record: an absent parameter is passed over.
ParameterAbsentSkipped ==
    /\ pc = "for_param"
    /\ k <= Len(Rules)
    /\ Get(stock_info, Rules[k].param) = None
    /\ summary' = [summary EXCEPT ![Rules[k].category][DataNotAvailable] = @ + 1]
    /\ k' = k + 1
    /\ UNCHANGED <<df, yf_data, selected_stocks, pc, run, stock_data, results,
                   stock_scores, category_scores, total_portfolio_score, i,
                   stock_info, total_stock_score, j, shown, portfolio_shown,
                   prev, cl_value, cl_thresholds, cl_level>>

\* Lines 100-104 and 124-133: one parameter whose value is None.
ParameterAbsent ==
    /\ pc = "for_param"
    /\ k <= Len(Rules)
    /\ LET rule == Rules[k] IN
          /\ Get(stock_info, rule.param) = None
          /\ results' = Emit(results,
                 ResultRecord(selected_stocks[i], rule, Text(DataNotAvailable),
                              DataNotAvailable, "black"))
          /\ summary' = [summary EXCEPT ![rule.category][DataNotAvailable] = @ + 1]
    /\ k' = k + 1
    /\ UNCHANGED <<df, yf_data, selected_stocks, pc, run, stock_data,
                   stock_scores, category_scores, total_portfolio_score, i,
                   stock_info, total_stock_score, j, shown, portfolio_shown,
                   prev, cl_value, cl_thresholds, cl_level>>

\* Line 135: the stock's score is stored under its symbol.
SaveStockScore ==
    /\ pc = "for_param"
    /\ k > Len(Rules)
    /\ stock_scores' = (selected_stocks[i] :> total_stock_score) @@ stock_scores
    /\ i' = i + 1
    /\ pc' = "for_stock"
    /\ UNCHANGED <<df, yf_data, selected_stocks, run, stock_data, results,
                   category_scores, total_portfolio_score, stock_info,
                   total_stock_score, summary, k, j, shown, portfolio_shown,
                   prev, cl_value, cl_thresholds, cl_level>>

\* Lines 137 and 162: the four values go back to the script.
Return ==
    /\ pc = "for_stock"
    /\ i > Len(selected_stocks)
    /\ j' = 1
    /\ pc' = "show_stock"
    /\ UNCHANGED <<df, yf_data, selected_stocks, run, stock_data, results,
                   stock_scores, category_scores, total_portfolio_score, i,
                   stock_info, total_stock_score, summary, k, shown,
                   portfolio_shown, prev, cl_value, cl_thresholds, cl_level>>

-----------------------------------------------------------------------------
(* The script after the call: lines 164-177, and Streamlit's rerun *)

\* stock_scores.get(stock_symbol, -1) instead of a default of 0.
ScoreOfSkippedAsBad(scores, stock_symbol) ==
    IF stock_symbol \in DOMAIN scores THEN scores[stock_symbol] ELSE -1

\* stock_scores.get(stock_symbol, 0), line 167.
ScoreOf(scores, stock_symbol) ==
    IF stock_symbol \in DOMAIN scores THEN scores[stock_symbol] ELSE 0

\* Lines 168 and 175.
LevelOfScore(score) ==
    IF score > 0 THEN "Good" ELSE IF score < 0 THEN "Bad" ELSE "Neutral"

\* Lines 165-171: the heading written for one selected stock.
ShowStock ==
    /\ pc = "show_stock"
    /\ j <= Len(selected_stocks)
    /\ LET stock_score == ScoreOf(stock_scores, selected_stocks[j])
           risk_level  == LevelOfScore(stock_score)
       IN shown' = Append(shown, [StockSymbol |-> selected_stocks[j],
                                  RiskLevel |-> risk_level,
                                  Color |-> get_risk_color(risk_level)])
    /\ j' = j + 1
    /\ UNCHANGED <<df, yf_data, selected_stocks, pc, run, stock_data, results,
                   stock_scores, category_scores, total_portfolio_score, i,
                   stock_info, total_stock_score, summary, k, portfolio_shown,
                   prev, cl_value, cl_thresholds, cl_level>>

\* Lines 173-177: the portfolio's level; the rest of the script only draws
\* results and the scores as they are.
ShowPortfolio ==
    /\ pc = "show_stock"
    /\ j > Len(selected_stocks)
    /\ portfolio_shown' = LevelOfScore(total_portfolio_score)
    /\ pc' = "done"
    /\ UNCHANGED <<df, yf_data, selected_stocks, run, stock_data, results,
                   stock_scores, category_scores, total_portfolio_score, i,
                   stock_info, total_stock_score, summary, k, j, shown, prev,
                   cl_value, cl_thresholds, cl_level>>

\* Streamlit runs the script again from the top; the files, the selection
\* and the fetched quotes are the same ones.  prev keeps what the call of
\* the first run returned.
Rerun ==
    /\ pc = "done"
    /\ run = "first"
    /\ run' = "second"
    /\ prev' = Returned
    /\ shown' = <<>>
    /\ portfolio_shown' = ""
    /\ pc' = "script"
    /\ UNCHANGED <<df, yf_data, selected_stocks, stock_data, results,
                   stock_scores, category_scores, total_portfolio_score, i,
                   stock_info, total_stock_score, summary, k, j, cl_value,
                   cl_thresholds, cl_level>>

Next ==
    \/ PleaseSelect
    \/ Enter
    \/ NoDataFound
    \/ LoadStock
    \/ ScoreParameter
    \/ ParameterAbsent
    \/ SaveStockScore
    \/ Return
    \/ ShowStock
    \/ ShowPortfolio
    \/ Rerun

Spec == Init /\ [][Next]_vars

-----------------------------------------------------------------------------
(* categorize_risk on its own: one call on any value and any band *)

MaxThreshold == 3   \* thresholds are drawn from 0..MaxThreshold and the infinities

ClNumbers == { Num(n) : n \in -1 .. MaxThreshold + 1 } \cup { PosInf, NegInf }
ClValues  == ClNumbers
             \cup { NumStr(n) : n \in -1 .. MaxThreshold + 1 }
             \cup { NaN, Text("N/A"), Text(DataNotAvailable), None }
ClBounds  == { Num(n) : n \in 0 .. MaxThreshold } \cup { PosInf, NegInf }
ClBands   == { b \in ClBounds \X ClBounds : Le(b[1], b[2]) }

InitClassify ==
    /\ cl_value \in ClValues
    /\ cl_thresholds \in ClBands
    /\ cl_level = ""
    /\ pc = "classify"
    /\ df = <<>>
    /\ yf_data = <<>>
    /\ selected_stocks = <<>>
    /\ run = "first"
    /\ stock_data = <<>>
    /\ results = <<>>
    /\ stock_scores = <<>>
    /\ category_scores = ZeroScores
    /\ total_portfolio_score = 0
    /\ i = 1
    /\ stock_info = <<>>
    /\ total_stock_score = 0
    /\ summary = ZeroSummary
    /\ k = 1
    /\ j = 1
    /\ shown = <<>>
    /\ portfolio_shown = ""
    /\ prev = NoReturn

\* Lines 36-48.
Classify ==
    /\ pc = "classify"
    /\ cl_level' = categorize_risk(cl_value, cl_thresholds)
    /\ pc' = "classified"
    /\ UNCHANGED <<scorerVars, cl_value, cl_thresholds>>

NextClassify == Classify

SpecClassify == InitClassify /\ [][NextClassify]_vars

-----------------------------------------------------------------------------
(* Properties *)

RECURSIVE SumOver(_)
SumOver(f) ==
    IF DOMAIN f = {} THEN 0
    ELSE LET x == CHOOSE x \in DOMAIN f : TRUE IN
         f[x] + SumOver([y \in DOMAIN f \ {x} |-> f[y]])

\* Good records minus Bad records among the records at the places in Q.
GoodMinusBad(Q) ==
    Cardinality({q \in Q : results[q].RiskLevel = "Good"})
    - Cardinality({q \in Q : results[q].RiskLevel = "Bad"})

\* The selected symbols that have a row in df, in input order.
HasRow(s) == s \in DOMAIN df
Scored == SelectSeq(selected_stocks, HasRow)

Occurrences(s) == Cardinality({q \in DOMAIN selected_stocks : selected_stocks[q] = s})

\* The scorer has returned and the script holds its four values.
HasReturned == pc \in {"show_stock", "done"} /\ selected_stocks # <<>>

\* A finite float as an integer, the infinities beyond every value drawn.
Rank(v) == IF v.kind = "inf" THEN MaxThreshold + 2
           ELSE IF v.kind = "-inf" THEN 0 - (MaxThreshold + 2)
           ELSE v.n

\* C1: for a numeric value and a band low <= high, categorize_risk returns
\* Good exactly when value < low, Neutral exactly when low <= value <= high
\* and Bad exactly when value > high; value = low and value = high are Neutral.
C1_ThreeWayClassification ==
    (pc = "classified" /\ cl_value.kind \in {"num", "numstr", "inf", "-inf"}) =>
        LET v    == Rank(cl_value)
            low  == Rank(cl_thresholds[1])
            high == Rank(cl_thresholds[2])
        IN /\ cl_level \in {"Good", "Neutral", "Bad"}
           /\ (cl_level = "Good")    <=> (v < low)
           /\ (cl_level = "Neutral") <=> (low <= v /\ v <= high)
           /\ (cl_level = "Bad")     <=> (v > high)

C1_Witness ==
    /\ pc = "classified"
    /\ cl_value.kind = "num"
    /\ cl_value = cl_thresholds[1]
    /\ cl_thresholds[2].kind = "num"
    /\ cl_thresholds[2].n > cl_value.n
    /\ cl_level = "Neutral"

\* The value is missing (an empty cell, which pandas reads as nan, or None)
\* or is text that float() cannot parse.
MissingOrUnparseable(v) == v.kind \in {"nan", "none", "text"}

\* C2: a parameter whose value is missing or cannot be parsed as a number
\* yields a record of level 'Data not available' and color black, and leaves
\* the stock score, the category scores and the portfolio score unchanged.
C2_MissingIsUnavailable ==
    [][ (/\ pc = "for_param"
         /\ k <= Len(Rules)
         /\ MissingOrUnparseable(Get(stock_info, Rules[k].param)))
        => /\ Len(results') = Len(results) + 1
           /\ results'[Len(results')].RiskLevel = DataNotAvailable
           /\ results'[Len(results')].Color = "black"
           /\ UNCHANGED <<total_stock_score, category_scores, total_portfolio_score>>
      ]_vars

NoUnavailable == \A q \in DOMAIN results : results[q].RiskLevel # DataNotAvailable

\* C3: when no record is Unavailable, the returned total_portfolio_score
\* equals the sum of category_scores and the sum of stock_scores.
C3_SumLaw ==
    (HasReturned /\ NoUnavailable) =>
        /\ total_portfolio_score = SumOver(category_scores)
        /\ total_portfolio_score = SumOver(stock_scores)

\* C4: every scored stock contributes exactly one record per rule of
\* risk_categories, 12 in all, also where the value is unavailable: a symbol
\* with a row has, for every rule, as many records as it has places in the
\* input.
C4_OneRecordPerRule ==
    HasReturned =>
        /\ Len(Rules) = 12
        /\ Len(results) = 12 * Len(Scored)
        /\ \A s \in Universe : \A r \in DOMAIN Rules :
              Cardinality({q \in DOMAIN results :
                              /\ results[q].StockSymbol = s
                              /\ results[q].Category = Rules[r].category
                              /\ results[q].Parameter = Rules[r].param})
              = (IF HasRow(s) THEN Occurrences(s) ELSE 0)

C4_Witness ==
    /\ HasReturned
    /\ Len(selected_stocks) = 1
    /\ selected_stocks[1] = "A"
    /\ \E q \in DOMAIN results :
          /\ results[q].RiskLevel = DataNotAvailable
          /\ results[q].Parameter = "Beta"

\* C5: a symbol without a row is skipped: the step that meets it changes no
\* record and no score and goes on to the next symbol; at return no record
\* and no stock_scores entry carries it, and every symbol with a row, also
\* one after it, has its entry.
C5_UnknownSymbolSkipped ==
    /\ [](HasReturned =>
            \A q \in DOMAIN selected_stocks :
               LET s == selected_stocks[q] IN
               IF HasRow(s) THEN s \in DOMAIN stock_scores
               ELSE /\ s \notin DOMAIN stock_scores
                    /\ \A n \in DOMAIN results : results[n].StockSymbol # s)
    /\ [][ (pc = "for_stock" /\ i <= Len(selected_stocks)
            /\ ~HasRow(selected_stocks[i]))
           => /\ UNCHANGED <<results, stock_scores, category_scores,
                             total_portfolio_score>>
              /\ i' = i + 1
              /\ pc' = "for_stock" ]_vars

C5_Witness ==
    /\ HasReturned
    /\ selected_stocks = <<"XYZ", "A">>
    /\ "A" \in DOMAIN stock_scores
    /\ Len(results) = 12

\* C6: the scores are determined by the records: stock_scores[s] is the
\* number of Good records of s minus the number of its Bad records, and
\* likewise for every category and for the portfolio.
C6_ScoresFromRecords ==
    HasReturned =>
        /\ \A s \in DOMAIN stock_scores :
              stock_scores[s] =
                  GoodMinusBad({q \in DOMAIN results : results[q].StockSymbol = s})
        /\ \A c \in Categories :
              category_scores[c] =
                  GoodMinusBad({q \in DOMAIN results : results[q].Category = c})
        /\ total_portfolio_score = GoodMinusBad(DOMAIN results)

\* C7: while a stock is scored, its record is the row of df except for Price
\* and Volume, which hold the fetched close and volume when the symbol is in
\* the fetched data and the marker 'Data not available' when it is not; the
\* Volume record of a symbol that is not in the fetched data is Unavailable.
C7_RealTimeOverride ==
    /\ pc = "for_param" =>
          LET s == selected_stocks[i]  row == df[s] IN
          /\ DOMAIN stock_info = DOMAIN row \cup {"Price", "Volume"}
          /\ \A c \in DOMAIN row \ {"Price", "Volume"} : stock_info[c] = row[c]
          /\ s \in DOMAIN stock_data =>
                /\ stock_info["Price"] = stock_data[s].Close
                /\ stock_info["Volume"] = stock_data[s].Volume
          /\ s \notin DOMAIN stock_data =>
                /\ stock_info["Price"] = Text(DataNotAvailable)
                /\ stock_info["Volume"] = Text(DataNotAvailable)
    /\ \A q \in DOMAIN results :
          (results[q].Parameter = "Volume"
           /\ results[q].StockSymbol \notin DOMAIN stock_data)
          => /\ results[q].RiskLevel = DataNotAvailable
             /\ results[q].Value = Text(DataNotAvailable)

C7_Witness ==
    /\ pc = "for_param"
    /\ selected_stocks[i] = "B"
    /\ "B" \notin DOMAIN stock_data
    /\ Get(df["B"], "Volume") = Num(9)
    /\ results # <<>>
    /\ results[Len(results)].Parameter = "Volume"
    /\ results[Len(results)].RiskLevel = DataNotAvailable
    /\ Get(stock_info, "Average Volume") = Num(4)
    /\ Get(df["B"], "Average Volume") = Num(4)

\* C8: the records are in the order (stock in the input, category in
\* risk_categories, parameter in its category): the n-th block of
\* Len(Rules) records belongs to the n-th scored symbol of the input and
\* lists the rules in declaration order.
C8_ResultOrder ==
    \A q \in DOMAIN results :
        LET n == ((q - 1) \div Len(Rules)) + 1
            r == ((q - 1) % Len(Rules)) + 1
        IN /\ n <= Len(Scored)
           /\ results[q].StockSymbol = Scored[n]
           /\ results[q].Category = Rules[r].category
           /\ results[q].Parameter = Rules[r].param

C8_Witness ==
    /\ HasReturned
    /\ selected_stocks = <<"B", "A">>
    /\ Len(results) = 24
    /\ results[12].StockSymbol = "B"
    /\ results[13].StockSymbol = "A"
    /\ results[13].Parameter = "Volatility"

\* C9: the second run's call, on the same symbols, table and fetched data,
\* returns what the first run's call returned.
C9_SameResultTwice ==
    (run = "second" /\ HasReturned) => Returned = prev

C9_Witness ==
    /\ run = "second"
    /\ HasReturned
    /\ Len(results) = 24
    /\ total_portfolio_score # 0
    /\ prev.total_portfolio_score = total_portfolio_score

\* C10: the level shown for a selected stock is Good for a positive
\* stock_scores entry, Bad for a negative one and Neutral for 0; a symbol
\* without a row has no entry and is shown Neutral, yellow.
C10_ShownLevel ==
    \A q \in DOMAIN shown :
        LET s == shown[q].StockSymbol IN
        /\ s = selected_stocks[q]
        /\ HasRow(s) <=> s \in DOMAIN stock_scores
        /\ IF s \in DOMAIN stock_scores /\ stock_scores[s] > 0
           THEN shown[q].RiskLevel = "Good" /\ shown[q].Color = "green"
           ELSE IF s \in DOMAIN stock_scores /\ stock_scores[s] < 0
           THEN shown[q].RiskLevel = "Bad" /\ shown[q].Color = "red"
           ELSE shown[q].RiskLevel = "Neutral" /\ shown[q].Color = "yellow"

C10_Witness ==
    /\ Len(shown) = 2
    /\ shown[1].StockSymbol = "XYZ"
    /\ shown[1].RiskLevel = "Neutral"
    /\ shown[2].StockSymbol = "A"
    /\ stock_scores["A"] = 0
    /\ shown[2].RiskLevel = "Neutral"

=============================================================================
